---------------------------- MODULE Spec2Model ----------------------------
(***************************************************************************)
(* A model of statsmodels/sysreg/sysmodel.py: the equation pool            *)
(* (SysModel), the covariance resolution and whitening of SysGLS, the      *)
(* restricted configurations SysWLS and SysOLS, and fit().                 *)
(*                                                                         *)
(* Arithmetic is exact: an array element is a rational <<n, d>> in lowest  *)
(* terms with d > 0.  The inputs are chosen so that every square root the  *)
(* Cholesky factorisation takes is rational, so the exact values are the   *)
(* ones the floating-point code approximates.                              *)
(***************************************************************************)
EXTENDS Integers, Sequences, FiniteSets, TLC

(***************************************************************************)
(* Bounds of the model.                                                    *)
(***************************************************************************)
MaxG == 2
MaxN == 2
MaxK == 2
MaxSeed == 1
MaxFits == 2

(***************************************************************************)
(* Rational numbers.                                                       *)
(***************************************************************************)
Abs(x) == IF x < 0 THEN -x ELSE x

RECURSIVE Gcd(_, _)
Gcd(a, b) == IF b = 0 THEN a ELSE Gcd(b, a % b)

Rat(n, d) ==
    LET g == Gcd(Abs(n), Abs(d))
        s == IF d < 0 THEN -1 ELSE 1
    IN  <<(s * n) \div g, (s * d) \div g>>

R(n) == <<n, 1>>
Zero == <<0, 1>>
One == <<1, 1>>
RAdd(x, y) == IF x[1] = 0 THEN y ELSE IF y[1] = 0 THEN x
              ELSE Rat(x[1] * y[2] + y[1] * x[2], x[2] * y[2])
RNeg(x) == <<-x[1], x[2]>>
RSub(x, y) == RAdd(x, RNeg(y))
RMul(x, y) == IF x[1] = 0 \/ y[1] = 0 THEN Zero ELSE Rat(x[1] * y[1], x[2] * y[2])
RDiv(x, y) == Rat(x[1] * y[2], x[2] * y[1])
RPos(x) == x[1] > 0

\* the integer r with r * r = n, or -1 when n is no perfect square
ISqrt(n) == IF \E r \in 0..n : r * r = n THEN CHOOSE r \in 0..n : r * r = n ELSE -1
HasRSqrt(x) == x[1] >= 0 /\ ISqrt(x[1]) >= 0 /\ ISqrt(x[2]) >= 0
RSqrt(x) == <<ISqrt(x[1]), ISqrt(x[2])>>

RECURSIVE RSum(_, _, _)
\* f(1) + ... + f(n) for a function f of 1..n
RSum(f, n, acc) == IF n = 0 THEN acc ELSE RSum(f, n - 1, RAdd(acc, f[n]))

(***************************************************************************)
(* Dense 2-D arrays: a sequence of rows, each a sequence of rationals.     *)
(* Every array of the model has at least one row.  Tup makes the sequence  *)
(* of a function of 1..n, so that its elements are computed once.          *)
(***************************************************************************)
Tup(f) == f \o <<>>

NRows(A) == Len(A)
NCols(A) == Len(A[1])

transpose(A) == Tup([j \in 1..NCols(A) |-> Tup([i \in 1..NRows(A) |-> A[i][j]])])

\* np.dot(A, B) for 2-D operands of matching inner dimension
dot(A, B) ==
    Tup([i \in 1..NRows(A) |->
        Tup([j \in 1..NCols(B) |->
            RSum([k \in 1..NCols(A) |-> RMul(A[i][k], B[k][j])], NCols(A), Zero)])])

\* np.eye(n)
eye(n) == Tup([i \in 1..n |-> Tup([j \in 1..n |-> IF i = j THEN One ELSE Zero])])

\* np.ones(n) * s
ones_times(n, s) == Tup([i \in 1..n |-> s])

\* np.diag(v) for a 1-D v
diag(v) ==
    Tup([i \in 1..Len(v) |-> Tup([j \in 1..Len(v) |-> IF i = j THEN v[i] ELSE Zero])])

\* np.kron with its operands exchanged: kron(B, A)
kron_swapped(A, B) ==
    LET p == NRows(A)
        q == NCols(A)
    IN  Tup([r \in 1..(NRows(B) * p) |->
            Tup([c \in 1..(NCols(B) * q) |->
                RMul(A[((r - 1) % p) + 1][((c - 1) % q) + 1],
                     B[((r - 1) \div p) + 1][((c - 1) \div q) + 1])])])

\* np.kron(A, B): block (i, j) of the result is A[i][j] * B
kron(A, B) ==
    LET p == NRows(B)
        q == NCols(B)
    IN  Tup([r \in 1..(NRows(A) * p) |->
            Tup([c \in 1..(NCols(A) * q) |->
                RMul(A[((r - 1) \div p) + 1][((c - 1) \div q) + 1],
                     B[((r - 1) % p) + 1][((c - 1) % q) + 1])])])

\* X.reshape(-1, 1) of a 2-D X: one column, elements in row-major order
reshape_column(X) ==
    Tup([r \in 1..(NRows(X) * NCols(X)) |->
        <<X[((r - 1) \div NCols(X)) + 1][((r - 1) % NCols(X)) + 1]>>])

(***************************************************************************)
(* np.linalg.pinv: the Moore-Penrose pseudo-inverse, computed exactly by   *)
(* Greville's column recursion (numpy computes the same array from the     *)
(* singular value decomposition, in floating point).                       *)
(***************************************************************************)
Col(A, k) == Tup([i \in 1..NRows(A) |-> A[i][k]])
VDot(u, v) == RSum([i \in 1..Len(u) |-> RMul(u[i], v[i])], Len(u), Zero)
VIsZero(u) == \A i \in 1..Len(u) : u[i][1] = 0
VScale(u, s) == Tup([j \in 1..Len(u) |-> RDiv(u[j], s)])

\* one step of the recursion: P is the pseudo-inverse of the first k - 1
\* columns of A, a is column k; the result is that of the first k columns
GrevilleStep(A, P, a, k) ==
    LET m == NRows(A)
        d == Tup([i \in 1..(k - 1) |-> VDot(P[i], a)])
        c == Tup([i \in 1..m |->
                 RSub(a[i], RSum([j \in 1..(k - 1) |-> RMul(A[i][j], d[j])],
                                 k - 1, Zero))])
        b == IF VIsZero(c)
             THEN VScale(Tup([j \in 1..m |->
                                 RSum([i \in 1..(k - 1) |-> RMul(d[i], P[i][j])],
                                      k - 1, Zero)]),
                         RAdd(One, VDot(d, d)))
             ELSE VScale(c, VDot(c, c))
    IN  Tup([i \in 1..k |->
            IF i = k THEN b
            ELSE Tup([j \in 1..m |-> RSub(P[i][j], RMul(d[i], b[j]))])])

RECURSIVE pinv_cols(_, _)
\* the pseudo-inverse (k x m) of the first k columns of the m x n array A
pinv_cols(A, k) ==
    IF k = 1
    THEN LET a == Col(A, 1)
         IN  IF VIsZero(a) THEN <<Tup([j \in 1..NRows(A) |-> Zero])>>
             ELSE <<VScale(a, VDot(a, a))>>
    ELSE GrevilleStep(A, pinv_cols(A, k - 1), Col(A, k), k)

pinv(A) == pinv_cols(A, NCols(A))

(***************************************************************************)
(* np.linalg.cholesky: the lower-triangular L with L * L^T = A.  LAPACK    *)
(* reads the lower triangle of A only (the entries above the diagonal are  *)
(* never looked at) and fails at the first pivot that is not positive.     *)
(* The result is [ok, exact, L]; exact is FALSE where the exact value is   *)
(* not a rational (or where a pivot cancels to exactly 0, which rounding   *)
(* decides in floating point): such inputs are left out of the model.      *)
(***************************************************************************)
RECURSIVE CholRow(_, _, _, _, _)
\* row i of L, entries j.. being added to row (entries 1..j-1), given the
\* rows L (1..i-1) already computed
CholRow(A, L, i, j, row) ==
    LET s == RSub(A[i][j],
                  RSum([k \in 1..(j - 1) |->
                           RMul(row[k], IF j = i THEN row[k] ELSE L[j][k])],
                       j - 1, Zero))
    IN  IF j = i
        THEN IF ~RPos(s)
             THEN [ok |-> FALSE,
                   exact |-> s[1] < 0 \/ VIsZero(row),
                   row |-> row]
             ELSE IF ~HasRSqrt(s)
             THEN [ok |-> FALSE, exact |-> FALSE, row |-> row]
             ELSE [ok |-> TRUE, exact |-> TRUE, row |-> Append(row, RSqrt(s))]
        ELSE CholRow(A, L, i, j + 1, Append(row, RDiv(s, L[j][j])))

RECURSIVE CholRows(_, _, _)
CholRows(A, L, i) ==
    IF i > NRows(A)
    THEN [ok |-> TRUE, exact |-> TRUE, L |-> L]
    ELSE LET r == CholRow(A, L, i, 1, <<>>)
         IN  IF ~r.ok THEN [ok |-> FALSE, exact |-> r.exact, L |-> L]
             ELSE CholRows(A, Append(L, r.row), i + 1)

\* the factor as an n x n array, zero above the diagonal
CholFactor(c, n) ==
    [ok |-> c.ok, exact |-> c.exact,
     L |-> IF c.ok
           THEN Tup([i \in 1..n |->
                    Tup([j \in 1..n |-> IF j <= i THEN c.L[i][j] ELSE Zero])])
           ELSE <<>>]

cholesky(A) == CholFactor(CholRows(A, <<>>, 1), NRows(A))

(***************************************************************************)
(* Python values.  An ndarray is [kind, ndim, data]: data is <<x>> for a   *)
(* 0-d array, a sequence for a 1-d array, a sequence of rows for a 2-d     *)
(* array and a sequence of 2-d arrays for a 3-d array.  A plain Python     *)
(* number is [kind |-> "float"]: it has no shape, ndim or size attribute.  *)
(***************************************************************************)
PyNone == [kind |-> "None", ndim |-> 0, data |-> <<>>]
PyFloat(x) == [kind |-> "float", ndim |-> 0, data |-> <<x>>]
Array0(x) == [kind |-> "ndarray", ndim |-> 0, data |-> <<x>>]
Array1(v) == [kind |-> "ndarray", ndim |-> 1, data |-> v]
Array2(M) == [kind |-> "ndarray", ndim |-> 2, data |-> M]
Array3(T) == [kind |-> "ndarray", ndim |-> 3, data |-> T]

\* a.shape
shape(a) ==
    CASE a.ndim = 0 -> <<>>
      [] a.ndim = 1 -> <<Len(a.data)>>
      [] a.ndim = 2 -> <<Len(a.data), Len(a.data[1])>>
      [] OTHER      -> <<Len(a.data), Len(a.data[1]), Len(a.data[1][1])>>

\* a.size
size(a) ==
    CASE a.ndim = 0 -> 1
      [] a.ndim = 1 -> Len(a.data)
      [] a.ndim = 2 -> Len(a.data) * Len(a.data[1])
      [] OTHER      -> Len(a.data) * Len(a.data[1]) * Len(a.data[1][1])

\* np.asarray of a number or of an array
asarray(x) == IF x.kind = "float" THEN Array0(x.data[1]) ELSE x

\* np.asarray of a list of integers, and of a list of rows of integers
asarray_1d(v) == Tup([n \in 1..Len(v) |-> R(v[n])])
asarray_2d(X) == Tup([n \in 1..Len(X) |-> Tup([k \in 1..Len(X[n]) |-> R(X[n][k])])])

(***************************************************************************)
(* The instance under construction.  An attribute that was never assigned  *)
(* is Unset (NoInt for neqs and nobs).                                     *)
(***************************************************************************)
Unset == <<>>
NoInt == -1

NewObject ==
    [neqs |-> NoInt, nobs |-> NoInt, endog |-> Unset, exog |-> Unset,
     sp_exog |-> Unset, sigma |-> Unset, cholsigmainv |-> Unset,
     wexog |-> Unset, wendog |-> Unset, pinv_wexog |-> Unset]

\* the outcome of a constructor: the object as far as it was assigned, and
\* the exception that ended the constructor ("none": it returned)
Outcome(obj, exc) == [obj |-> obj, err |-> exc]

(***************************************************************************)
(* SysModel.__init__                                                       *)
(***************************************************************************)
RECURSIVE SumTo(_, _)
\* f[1] + ... + f[n] for integers
SumTo(f, n) == IF n = 0 THEN 0 ELSE SumTo(f, n - 1) + f[n]

\* np.column_stack of 2-D arrays with one row count: row n is the
\* concatenation of the arrays' rows n
RECURSIVE ConcatRows(_, _, _)
ConcatRows(Xs, n, i) ==
    IF i > Len(Xs) THEN <<>> ELSE Xs[i][n] \o ConcatRows(Xs, n, i + 1)

column_stack(Xs) == Tup([n \in 1..NRows(Xs[1]) |-> ConcatRows(Xs, n, 1)])

\* np.column_stack of 1-D arrays of one length: array i is column i
column_stack_1d(ys) ==
    Tup([n \in 1..Len(ys[1]) |-> Tup([i \in 1..Len(ys) |-> ys[i][n]])])

\* block_diag with the arrays taken last to first
block_diag_reversed(Xs) ==
    LET G == Len(Xs)
        rowsOf == Tup([i \in 1..G |-> NRows(Xs[G + 1 - i])])
        colsOf == Tup([i \in 1..G |-> NCols(Xs[G + 1 - i])])
        roff == Tup([i \in 1..(G + 1) |-> SumTo(rowsOf, i - 1)])
        coff == Tup([i \in 1..(G + 1) |-> SumTo(colsOf, i - 1)])
    IN  Tup([r \in 1..roff[G + 1] |->
            LET i == CHOOSE b \in 1..G : r > roff[b] /\ r <= roff[b + 1]
            IN  Tup([c \in 1..coff[G + 1] |->
                    IF c > coff[i] /\ c <= coff[i + 1]
                    THEN Xs[G + 1 - i][r - roff[i]][c - coff[i]]
                    ELSE Zero])])

\* scipy.linalg.block_diag: array i occupies its own rows and its own
\* columns, in the order given; every other entry is zero
block_diag(Xs) ==
    LET G == Len(Xs)
        rowsOf == Tup([i \in 1..G |-> NRows(Xs[i])])
        colsOf == Tup([i \in 1..G |-> NCols(Xs[i])])
        roff == Tup([i \in 1..(G + 1) |-> SumTo(rowsOf, i - 1)])
        coff == Tup([i \in 1..(G + 1) |-> SumTo(colsOf, i - 1)])
    IN  Tup([r \in 1..roff[G + 1] |->
            LET i == CHOOSE b \in 1..G : r > roff[b] /\ r <= roff[b + 1]
            IN  Tup([c \in 1..coff[G + 1] |->
                    IF c > coff[i] /\ c <= coff[i + 1]
                    THEN Xs[i][r - roff[i]][c - coff[i]]
                    ELSE Zero])])

SysModel_init(sys) ==
    LET o1 == [NewObject EXCEPT !.neqs = Len(sys)]
    IN  IF Len(sys) = 0 THEN Outcome(o1, "IndexError")
        ELSE
        LET G == Len(sys)
            o2 == [o1 EXCEPT !.nobs = Len(sys[1].endog)]
            ys == Tup([i \in 1..G |-> asarray_1d(sys[i].endog)])
            Xs == Tup([i \in 1..G |-> asarray_2d(sys[i].exog)])
        IN  IF \E i \in 1..G : Len(ys[i]) # Len(ys[1])
            THEN Outcome(o2, "ValueError: array dimensions must match")
            ELSE
            LET o3 == [o2 EXCEPT !.endog = transpose(column_stack_1d(ys))]
            IN  IF \E i \in 1..G : NRows(Xs[i]) # NRows(Xs[1])
                THEN Outcome(o3, "ValueError: array dimensions must match")
                ELSE Outcome([o3 EXCEPT !.exog = column_stack(Xs),
                                        !.sp_exog = block_diag(Xs)], "none")

(***************************************************************************)
(* SysGLS                                                                  *)
(***************************************************************************)
\* the resolution with the length of a 1-d sigma left unchecked
ResolveSigmaAnyVector(sigma, neqs) ==
    IF sigma.kind = "None"
    THEN [err |-> "none", sigma |-> diag(ones_times(neqs, One))]
    ELSE IF sigma.kind # "ndarray"
    THEN [err |-> "AttributeError: no attribute 'shape'", sigma |-> Unset]
    ELSE IF shape(sigma) = <<>>
    THEN [err |-> "none", sigma |-> diag(ones_times(neqs, sigma.data[1]))]
    ELSE IF sigma.ndim = 1
    THEN [err |-> "none", sigma |-> diag(sigma.data)]
    ELSE IF shape(sigma) = <<neqs, neqs>>
    THEN [err |-> "none", sigma |-> sigma.data]
    ELSE [err |-> "ValueError: sigma is not correctly specified", sigma |-> Unset]

\* lines 88-100: the canonical covariance of a sigma argument, or the
\* exception the branch conditions raise
ResolveSigma(sigma, neqs) ==
    IF sigma.kind = "None"
    THEN [err |-> "none", sigma |-> diag(ones_times(neqs, One))]
    ELSE IF sigma.kind # "ndarray"
    THEN [err |-> "AttributeError: no attribute 'shape'", sigma |-> Unset]
    ELSE IF shape(sigma) = <<>>
    THEN [err |-> "none", sigma |-> diag(ones_times(neqs, sigma.data[1]))]
    ELSE IF sigma.ndim = 1 /\ size(sigma) = neqs
    THEN [err |-> "none", sigma |-> diag(sigma.data)]
    ELSE IF shape(sigma) = <<neqs, neqs>>
    THEN [err |-> "none", sigma |-> sigma.data]
    ELSE [err |-> "ValueError: sigma is not correctly specified", sigma |-> Unset]

\* SysGLS.whiten, when the shapes of the product agree
whiten(obj, X) == dot(kron(obj.cholsigmainv, eye(obj.nobs)), X)

\* np.dot raises when the inner dimensions differ
whiten_raises(obj, X) == NRows(obj.cholsigmainv) * obj.nobs # NRows(X)

\* line 105
SysGLS_pinv(o4) == Outcome([o4 EXCEPT !.pinv_wexog = pinv(o4.wexog)], "none")

\* line 104, y being self.endog.reshape(-1, 1)
SysGLS_wendog(o3, y) ==
    IF whiten_raises(o3, y) THEN Outcome(o3, "ValueError: shapes not aligned")
    ELSE SysGLS_pinv([o3 EXCEPT !.wendog = whiten(o3, y)])

\* line 103
SysGLS_wexog(o2) ==
    IF whiten_raises(o2, o2.sp_exog) THEN Outcome(o2, "ValueError: shapes not aligned")
    ELSE SysGLS_wendog([o2 EXCEPT !.wexog = whiten(o2, o2.sp_exog)],
                       reshape_column(o2.endog))

\* line 102, ch being np.linalg.cholesky(np.linalg.pinv(self.sigma))
SysGLS_chol(o1, ch) ==
    IF ~ch.ok THEN Outcome(o1, "LinAlgError")
    ELSE SysGLS_wexog([o1 EXCEPT !.cholsigmainv = transpose(ch.L)])

\* lines 102-105
SysGLS_whitening(o1) == SysGLS_chol(o1, cholesky(pinv(o1.sigma)))

\* lines 88-100, res being the branch taken
SysGLS_resolved(obj, res) ==
    IF res.err # "none" THEN Outcome(obj, res.err)
    ELSE SysGLS_whitening([obj EXCEPT !.sigma = res.sigma])

\* lines 86-105, base being the outcome of SysModel.__init__
SysGLS_base(base, sigma) ==
    IF base.err # "none" THEN base
    ELSE SysGLS_resolved(base.obj, ResolveSigma(sigma, base.obj.neqs))

SysGLS_init(sys, sigma) == SysGLS_base(SysModel_init(sys), sigma)

(***************************************************************************)
(* SysWLS, SysOLS                                                          *)
(***************************************************************************)
\* the weights taken as standard deviations: sigma = diag(w^2)
ResolveWeightsSquared(weights0, neqs) ==
    LET weights == asarray(weights0)
    IN  IF shape(weights) = <<>>
        THEN [err |-> "none",
              sigma |-> Array2(diag(ones_times(neqs, RMul(weights.data[1],
                                                          weights.data[1]))))]
        ELSE IF weights.ndim = 1 /\ size(weights) = neqs
        THEN [err |-> "none",
              sigma |-> Array2(diag(Tup([i \in 1..Len(weights.data) |->
                                            RMul(weights.data[i], weights.data[i])])))]
        ELSE [err |-> "ValueError: weights is not correctly specified", sigma |-> PyNone]

\* lines 133-143: the sigma SysWLS hands to SysGLS.__init__
ResolveWeights(weights0, neqs) ==
    LET weights == asarray(weights0)
    IN  IF shape(weights) = <<>>
        THEN [err |-> "none", sigma |-> Array2(diag(ones_times(neqs, weights.data[1])))]
        ELSE IF weights.ndim = 1 /\ size(weights) = neqs
        THEN [err |-> "none", sigma |-> Array2(diag(weights.data))]
        ELSE [err |-> "ValueError: weights is not correctly specified", sigma |-> PyNone]

\* lines 143-145, res being the branch taken
SysWLS_resolved(sys, res) ==
    IF res.err # "none" THEN Outcome(NewObject, res.err)
    ELSE SysGLS_init(sys, res.sigma)

SysWLS_init(sys, weights) == SysWLS_resolved(sys, ResolveWeights(weights, Len(sys)))

\* super(SysWLS, self).__init__(sys) is SysGLS.__init__(sys), sigma=None
SysOLS_init(sys) == SysGLS_init(sys, PyNone)

(***************************************************************************)
(* fit and SysResults                                                      *)
(***************************************************************************)
\* a result built with scale 0
SysResultsScaleZero(model, params, normalized_cov_params) ==
    [model |-> model, params |-> params,
     normalized_cov_params |-> normalized_cov_params, scale |-> Zero]

\* SysResults.__init__, lines 155-157: scale defaults to 1.
SysResults(model, params, normalized_cov_params) ==
    [model |-> model, params |-> params,
     normalized_cov_params |-> normalized_cov_params, scale |-> One]

\* beta from the transposed design instead of its pseudo-inverse
fit_beta_transposed(obj) == dot(transpose(obj.wexog), obj.wendog)

\* line 119
fit_beta(obj) == dot(obj.pinv_wexog, obj.wendog)
\* lines 120-121
fit_normalized_cov_params(obj) == dot(obj.pinv_wexog, transpose(obj.pinv_wexog))

(***************************************************************************)
(* The inputs of a run: a list of equations and a sigma or weights         *)
(* argument.                                                               *)
(***************************************************************************)
ExogVal(seed, i, n, k) == ((i * n) + k + (seed * n * k)) % 3
EndogVal(seed, i, n) == ((2 * i + n + seed) % 4) - 1

\* what is wrong with the list: nothing; equation j's response has one
\* element more; equation j's regressors have one row more; every
\* equation's regressors have one row more
Defects(G) ==
    {<<"none", 0>>, <<"exog_all", 0>>}
        \cup {<<"endog", j>> : j \in 1..G} \cup {<<"exog", j>> : j \in 1..G}

Equation(i, N, K, seed, defect) ==
    LET ne == IF defect = <<"endog", i>> THEN N + 1 ELSE N
        nx == IF defect = <<"exog", i>> \/ defect[1] = "exog_all" THEN N + 1 ELSE N
    IN  [endog |-> Tup([n \in 1..ne |-> EndogVal(seed, i, n)]),
         exog |-> Tup([n \in 1..nx |-> Tup([k \in 1..K |-> ExogVal(seed, i, n, k)])])]

MakeSys(G, N, kseed, seed, defect) ==
    Tup([i \in 1..G |-> Equation(i, N, ((i + kseed) % MaxK) + 1, seed, defect)])

SystemsOf(G) ==
    {MakeSys(G, N, kseed, seed, defect) :
        N \in 1..MaxN, kseed \in 0..(MaxK - 1),
        seed \in 0..MaxSeed, defect \in Defects(G)}

Systems == {<<>>} \cup UNION {SystemsOf(G) : G \in 1..MaxG}

\* the list is as the docstring of SysModel asks: G >= 1 equations, every
\* response of one length N and every regressor array with N rows
WellFormed(s) ==
    /\ Len(s) >= 1
    /\ \A i \in 1..Len(s) :
          Len(s[i].endog) = Len(s[1].endog) /\ Len(s[i].exog) = Len(s[1].endog)

SVals == {R(-1), R(0), R(1), R(4)}
WVals == {R(1), R(4)}
DVals == {R(1), R(2), R(5)}
CVals == {R(-2), R(-1), R(1), R(2)}

Vectors(n) == {Tup(f) : f \in [1..n -> WVals]}

\* G x G arrays: a diagonal from DVals, and at most one pair (p, q), p < q,
\* with c at (p, q), at (q, p) or at both
MatrixOf(G, d, p, q, c, kind) ==
    Tup([i \in 1..G |->
        Tup([j \in 1..G |->
            IF i = j THEN d[i]
            ELSE IF i = p /\ j = q /\ kind \in {"sym", "upper"} THEN c
            ELSE IF i = q /\ j = p /\ kind \in {"sym", "lower"} THEN c
            ELSE Zero])])

Representable(M) == cholesky(pinv(M)).exact

SquareMatrices(G) ==
    {M \in {MatrixOf(G, d, pq[1], pq[2], c, kind) :
                d \in [1..G -> DVals],
                pq \in {<<0, 0>>} \cup {x \in (1..G) \X (1..G) : x[1] < x[2]},
                c \in CVals, kind \in {"sym", "upper", "lower"}} :
        Representable(M)}

Ones2(r, c) == Tup([i \in 1..r |-> Tup([j \in 1..c |-> One])])
Ones3(n) == Tup([i \in 1..n |-> Ones2(n, n)])

IsSymmetric(M) == \A i, j \in 1..NRows(M) : M[i][j] = M[j][i]

(***************************************************************************)
(* The program: one constructor call, then fit() calls on the instance     *)
(* from two threads.                                                       *)
(***************************************************************************)
Threads == {"t1", "t2"}

VARIABLES
    cls,        \* the class constructed
    sys,        \* the list of equations passed
    arg,        \* the sigma (SysGLS) or weights (SysWLS) passed
    pc,         \* "call", then "constructed" or "raised"
    self,       \* the instance's attributes
    err,        \* the exception the constructor raised, or "none"
    tpc,        \* per thread: where its fit() call is
    tbeta,      \* per thread: fit's local beta
    tcov,       \* per thread: fit's local normalized_cov_params
    results     \* the results fit() returned, in order of return

vars == <<cls, sys, arg, pc, self, err, tpc, tbeta, tcov, results>>

\* the arguments tried with a list of G equations
ArgInit(G) ==
    \/ arg = PyNone
    \/ \E x \in SVals : arg = PyFloat(x) \/ arg = Array0(x)
    \/ \E n \in {G - 1, G, G + 1} \ {0} : \E v \in Vectors(n) : arg = Array1(v)
    \/ \E M \in SquareMatrices(G) : arg = Array2(M)
    \/ \E r, c \in 1..(G + 1) : <<r, c>> # <<G, G>> /\ arg = Array2(Ones2(r, c))
    \/ \E n \in {1, G} : arg = Array3(Ones3(n))

Init ==
    /\ sys \in Systems
    /\ cls \in {"SysModel", "SysGLS", "SysWLS", "SysOLS"}
    /\ IF cls \in {"SysModel", "SysOLS"} THEN arg = PyNone
       ELSE /\ ArgInit(IF Len(sys) = 0 THEN 1 ELSE Len(sys))
            /\ cls = "SysWLS" => arg # PyNone
    /\ pc = "call"
    /\ self = NewObject
    /\ err = "none"
    /\ tpc = [t \in Threads |-> "idle"]
    /\ tbeta = [t \in Threads |-> Unset]
    /\ tcov = [t \in Threads |-> Unset]
    /\ results = <<>>

Constructed(out) ==
    /\ self' = out.obj
    /\ err' = out.err
    /\ pc' = IF out.err = "none" THEN "constructed" ELSE "raised"
    /\ UNCHANGED <<cls, sys, arg, tpc, tbeta, tcov, results>>

NewSysModel == pc = "call" /\ cls = "SysModel" /\ Constructed(SysModel_init(sys))
NewSysGLS == pc = "call" /\ cls = "SysGLS" /\ Constructed(SysGLS_init(sys, arg))
NewSysWLS == pc = "call" /\ cls = "SysWLS" /\ Constructed(SysWLS_init(sys, arg))
NewSysOLS == pc = "call" /\ cls = "SysOLS" /\ Constructed(SysOLS_init(sys))

\* SysModel.fit
FitNotImplemented(t) ==
    /\ pc = "constructed" /\ cls = "SysModel" /\ tpc[t] = "idle"
    /\ tpc' = [tpc EXCEPT ![t] = "raised"]
    /\ UNCHANGED <<cls, sys, arg, pc, self, err, tbeta, tcov, results>>

\* SysGLS.fit, line 119
FitBeta(t) ==
    /\ pc = "constructed" /\ cls # "SysModel" /\ tpc[t] = "idle"
    /\ Len(results) < MaxFits
    /\ tbeta' = [tbeta EXCEPT ![t] = fit_beta(self)]
    /\ tpc' = [tpc EXCEPT ![t] = "beta"]
    /\ UNCHANGED <<cls, sys, arg, pc, self, err, tcov, results>>

\* lines 120-121
FitCov(t) ==
    /\ tpc[t] = "beta"
    /\ tcov' = [tcov EXCEPT ![t] = fit_normalized_cov_params(self)]
    /\ tpc' = [tpc EXCEPT ![t] = "cov"]
    /\ UNCHANGED <<cls, sys, arg, pc, self, err, tbeta, results>>

\* line 122
FitReturn(t) ==
    /\ tpc[t] = "cov"
    /\ results' = Append(results, SysResults(self, tbeta[t], tcov[t]))
    /\ tpc' = [tpc EXCEPT ![t] = "idle"]
    /\ tbeta' = [tbeta EXCEPT ![t] = Unset]
    /\ tcov' = [tcov EXCEPT ![t] = Unset]
    /\ UNCHANGED <<cls, sys, arg, pc, self, err>>

Next ==
    \/ NewSysModel
    \/ NewSysGLS
    \/ NewSysWLS
    \/ NewSysOLS
    \/ \E t \in Threads : FitNotImplemented(t)
    \/ \E t \in Threads : FitBeta(t)
    \/ \E t \in Threads : FitCov(t)
    \/ \E t \in Threads : FitReturn(t)

Spec == Init /\ [][Next]_vars

(***************************************************************************)
(* Vocabulary of the properties.                                           *)
(***************************************************************************)
GLSFamily == {"SysGLS", "SysWLS", "SysOLS"}

\* SysModel.__init__ returned: every attribute of the pool is assigned
PoolBuilt == self.sp_exog # Unset

IsScalar(a) == a.kind = "float" \/ (a.kind = "ndarray" /\ a.ndim = 0)
IsVector(a, n) == a.kind = "ndarray" /\ a.ndim = 1 /\ Len(a.data) = n
IsSquare(a, n) == a.kind = "ndarray" /\ a.ndim = 2 /\ shape(a) = <<n, n>>

\* s on the diagonal of an n x n array, 0 elsewhere
ScalarMatrix(n, x) == [i \in 1..n |-> [j \in 1..n |-> IF i = j THEN x ELSE Zero]]
\* v on the diagonal
DiagonalMatrix(v) ==
    [i \in 1..Len(v) |-> [j \in 1..Len(v) |-> IF i = j THEN v[i] ELSE Zero]]

\* first column (0-based offset) of the column block of equation i
ColOffset(s, i) == SumTo([e \in 1..Len(s) |-> Len(s[e].exog[1])], i - 1)

\* C1: for G >= 1 equations, SysGLS with sigma absent, a scalar s (a plain
\* number or a 0-d array), a length-G vector v or a G x G matrix M resolves
\* self.sigma to identity(G), s * identity(G), diag(v) and M, and the
\* constructor goes on to the whitening (it raises nothing before line 102).
C1_SigmaResolved ==
    (cls = "SysGLS" /\ pc # "call" /\ WellFormed(sys)) =>
        LET G == Len(sys)
            accepted == arg.kind = "None" \/ IsScalar(arg)
                            \/ IsVector(arg, G) \/ IsSquare(arg, G)
        IN  /\ arg.kind = "None" => self.sigma = ScalarMatrix(G, One)
            /\ IsScalar(arg) => self.sigma = ScalarMatrix(G, arg.data[1])
            /\ IsVector(arg, G) => self.sigma = DiagonalMatrix(arg.data)
            /\ IsSquare(arg, G) => self.sigma = arg.data
            /\ accepted => err \in {"none", "LinAlgError"}

\* an argument of none of the allowed shapes
BadShape(c, a, G) ==
    /\ a.kind = "ndarray"
    /\ \/ a.ndim = 1 /\ Len(a.data) # G
       \/ a.ndim = 2 /\ (c = "SysWLS" \/ shape(a) # <<G, G>>)
       \/ a.ndim > 2

\* C2: a sigma (SysGLS) or weights (SysWLS) of none of the allowed shapes
\* makes the constructor raise "... is not correctly specified", before the
\* Cholesky factor, the whitened data and the pseudo-inverse are computed,
\* and no instance is returned (nothing can call fit).
C2_BadShapeRaises ==
    (/\ pc # "call"
     /\ cls \in {"SysGLS", "SysWLS"}
     /\ cls = "SysGLS" => PoolBuilt
     /\ BadShape(cls, arg, Len(sys))) =>
        /\ pc = "raised"
        /\ err = IF cls = "SysGLS"
                 THEN "ValueError: sigma is not correctly specified"
                 ELSE "ValueError: weights is not correctly specified"
        /\ self.sigma = Unset /\ self.cholsigmainv = Unset
        /\ self.wexog = Unset /\ self.wendog = Unset /\ self.pinv_wexog = Unset
        /\ results = <<>> /\ \A t \in Threads : tpc[t] = "idle"

C2_Witness ==
    /\ pc = "raised" /\ cls = "SysGLS" /\ Len(sys) = 2
    /\ arg.kind = "ndarray" /\ arg.ndim = 1 /\ Len(arg.data) = 3
    /\ err = "ValueError: sigma is not correctly specified"

\* C3: building the pool fails when the list is empty or when a response
\* length or a regressor row count differs from the common N, so that every
\* constructed model has all responses of length nobs and all regressor
\* arrays with nobs rows.
C3_PoolValidated ==
    /\ (pc # "call" /\ self.neqs # NoInt /\ ~WellFormed(sys)) =>
           (pc = "raised" /\ ~PoolBuilt)
    /\ pc = "constructed" =>
           \A i \in 1..Len(sys) :
               Len(sys[i].endog) = self.nobs /\ Len(sys[i].exog) = self.nobs

\* the sigma that is diag(w), or w * identity(G) for a scalar w
WeightsAsSigma(w, G) ==
    IF IsScalar(w) THEN Array2(Tup(ScalarMatrix(G, w.data[1])))
    ELSE Array2(Tup(DiagonalMatrix(w.data)))

\* the instance, the exception and every result returned are those of the
\* constructor outcome out
SameAs(out) ==
    /\ self = out.obj
    /\ err = out.err
    /\ \A k \in 1..Len(results) :
           results[k] = SysResults(out.obj, fit_beta(out.obj), fit_normalized_cov_params(out.obj))

\* C4: SysWLS(sys, weights=w), w a scalar or a length-G vector, reaches the
\* state of SysGLS(sys, sigma=diag(w)) (w * identity(G) for a scalar) and
\* returns the same fit() results; SysOLS(sys) reaches the state and results
\* of SysWLS(sys, weights=1.0) and of SysGLS(sys, sigma=identity(G)).
C4_RestrictedConfigurations ==
    pc # "call" =>
        /\ (cls = "SysWLS" /\ (IsScalar(arg) \/ IsVector(arg, Len(sys)))) =>
               SameAs(SysGLS_init(sys, WeightsAsSigma(arg, Len(sys))))
        /\ cls = "SysOLS" =>
               /\ SameAs(SysWLS_init(sys, PyFloat(One)))
               /\ SameAs(SysGLS_init(sys, Array2(Tup(ScalarMatrix(Len(sys), One)))))

C4_Witness ==
    /\ cls = "SysWLS" /\ IsVector(arg, 2) /\ arg.data[1] # arg.data[2]
    /\ Len(results) >= 1

\* the least-squares solution of one equation alone: pinv(X_i) * y_i
OwnLeastSquares(eq) ==
    dot(pinv(asarray_2d(eq.exog)), Tup([n \in 1..Len(eq.endog) |-> <<R(eq.endog[n])>>]))

\* C5: under identity covariance (sigma absent, or SysOLS) the whitening
\* operator is the identity, the whitened design is the block design, the
\* whitened response is the stacked response, and block i of fit()'s
\* parameters is the least-squares solution of equation i alone.
C5_IdentityDecomposes ==
    (pc = "constructed" /\ (cls = "SysOLS" \/ (cls = "SysGLS" /\ arg.kind = "None"))) =>
        LET G == Len(sys)
            N == self.nobs
        IN  /\ kron(self.cholsigmainv, eye(N)) = ScalarMatrix(G * N, One)
            /\ self.wexog = self.sp_exog
            /\ Len(self.wendog) = G * N
            /\ \A i \in 1..G : \A n \in 1..N :
                   self.wendog[(i - 1) * N + n] = <<R(sys[i].endog[n])>>
            /\ \A r \in 1..Len(results) : \A i \in 1..G :
                   \A k \in 1..Len(sys[i].exog[1]) :
                       results[r].params[ColOffset(sys, i) + k]
                           = OwnLeastSquares(sys[i])[k]

C5_Witness ==
    /\ cls = "SysOLS" /\ Len(sys) = 2 /\ self.nobs = 2 /\ Len(results) >= 1
    /\ Len(sys[1].exog[1]) # Len(sys[2].exog[1])

\* C6: a step of a fit() call, whichever thread takes it, leaves the pool,
\* the covariance and the whitening state of a constructed instance as they
\* were, and every result returned so far has scale 1, refers to the
\* instance, and equals the first result returned.
C6_FitIsPure ==
    [][/\ pc = "constructed" => (self' = self /\ pc' = pc /\ err' = err)
       /\ Len(results') >= Len(results)
       /\ \A k \in 1..Len(results') :
              /\ results'[k].scale = One
              /\ results'[k].model = self'
              /\ results'[k] = results'[1]]_vars

C6_Witness ==
    /\ Len(results) = 2
    /\ \E t \in Threads : tpc[t] = "cov"
    /\ Len(sys) = 2

(***************************************************************************)
(* Positive semi-definiteness, by the principal minors.                    *)
(***************************************************************************)
RCmpGeqZero(x) == x[1] >= 0

\* the k-th smallest element of a set of integers
Nth(S, k) == CHOOSE x \in S : Cardinality({y \in S : y < x}) = k - 1

SubMatrix(M, S) ==
    Tup([i \in 1..Cardinality(S) |->
        Tup([j \in 1..Cardinality(S) |-> M[Nth(S, i)][Nth(S, j)]])])

\* M without its first row and its column j
Minor(M, j) ==
    Tup([r \in 1..(NRows(M) - 1) |->
        Tup([c \in 1..(NRows(M) - 1) |-> M[r + 1][IF c < j THEN c ELSE c + 1]])])

RECURSIVE Det(_)
Det(M) ==
    IF NRows(M) = 1 THEN M[1][1]
    ELSE RSum([j \in 1..NRows(M) |->
                  RMul(IF j % 2 = 1 THEN M[1][j] ELSE RNeg(M[1][j]),
                       Det(Minor(M, j)))],
              NRows(M), Zero)

IsPSD(M) ==
    /\ IsSymmetric(M)
    /\ \A S \in (SUBSET (1..NRows(M))) \ {{}} : RCmpGeqZero(Det(SubMatrix(M, S)))

\* C7: when the pseudo-inverse of the resolved covariance is not symmetric
\* or not positive semi-definite, the constructor raises at the Cholesky
\* step, before any whitened data is computed, and returns no instance.
C7_CholeskyRejects ==
    (pc # "call" /\ self.sigma # Unset /\ ~IsPSD(pinv(self.sigma))) =>
        /\ pc = "raised"
        /\ err = "LinAlgError"
        /\ self.cholsigmainv = Unset
        /\ self.wexog = Unset /\ self.wendog = Unset /\ self.pinv_wexog = Unset

\* C8: for G equations with common N and widths K_1..K_G, sp_exog is
\* (G*N) x (K_1+...+K_G); in the column block of equation i, the rows
\* (i-1)*N+1..i*N hold equation i's regressors and every other row is zero,
\* the blocks being in the order of the equations.
C8_BlockDesign ==
    (PoolBuilt /\ WellFormed(sys)) =>
        LET G == Len(sys)
            N == Len(sys[1].endog)
            B == self.sp_exog
        IN  /\ Len(B) = G * N
            /\ \A r \in 1..Len(B) : Len(B[r]) = ColOffset(sys, G + 1)
            /\ \A i \in 1..G : \A k \in 1..Len(sys[i].exog[1]) : \A r \in 1..(G * N) :
                   B[r][ColOffset(sys, i) + k]
                       = IF r > (i - 1) * N /\ r <= i * N
                         THEN R(sys[i].exog[r - (i - 1) * N][k])
                         ELSE Zero

C8_Witness ==
    /\ PoolBuilt /\ WellFormed(sys) /\ Len(sys) = 2 /\ self.nobs = 2
    /\ Len(sys[1].exog[1]) = 2 /\ Len(sys[2].exog[1]) = 1

\* C9: with rows indexed (equation i, observation n) -> (i-1)*N+n, the
\* operator of whiten() has C[i][j] at ((i,n),(j,n)) and 0 at ((i,n),(j,m))
\* for n # m, C being cholsigmainv; and wexog and wendog are both that
\* operator applied: row (i,n) of each is the combination, with the
\* coefficients C[i][j], of the rows (j,n) of sp_exog and of the responses.
C9_NoMixingAcrossObservations ==
    (pc = "constructed" /\ cls \in GLSFamily) =>
        LET G == self.neqs
            N == self.nobs
            C == self.cholsigmainv
            W == kron(C, eye(N))
        IN  /\ \A i, j \in 1..G : \A n, m \in 1..N :
                   W[(i - 1) * N + n][(j - 1) * N + m]
                       = IF n = m THEN C[i][j] ELSE Zero
            /\ \A i \in 1..G : \A n \in 1..N :
                   /\ \A c \in 1..NCols(self.sp_exog) :
                          self.wexog[(i - 1) * N + n][c]
                              = RSum([j \in 1..G |->
                                         RMul(C[i][j], self.sp_exog[(j - 1) * N + n][c])],
                                     G, Zero)
                   /\ self.wendog[(i - 1) * N + n]
                          = <<RSum([j \in 1..G |-> RMul(C[i][j], R(sys[j].endog[n]))],
                                   G, Zero)>>

C9_Witness ==
    /\ pc = "constructed" /\ cls = "SysGLS" /\ self.neqs = 2 /\ self.nobs = 2
    /\ self.cholsigmainv[1][2] # Zero
    /\ IsSymmetric(self.sigma)

\* C10: for every sigma the constructor accepts, C = cholsigmainv satisfies
\* transpose(C) * C = pinv(sigma), and the operator W of whiten() satisfies
\* transpose(W) * W = kron(pinv(sigma), identity(N)).
C10_FactorOrientation ==
    (pc = "constructed" /\ cls \in GLSFamily) =>
        LET C == self.cholsigmainv
            W == kron(C, eye(self.nobs))
        IN  /\ dot(transpose(C), C) = pinv(self.sigma)
            /\ dot(transpose(W), W) = kron(pinv(self.sigma), eye(self.nobs))

=============================================================================
